---- MODULE Spec2Model ----
(***************************************************************************)
(* Model of segmenta_kml.py: splitting one KML document into one KML       *)
(* document per Placemark.                                                 *)
(*                                                                         *)
(* Text is a sequence of one-character strings.  An element's text that is *)
(* None in ElementTree is the empty sequence here: the program only ever   *)
(* tests text for truthiness ("x.text or ''", "if el.text"), so None and   *)
(* "" are the same value to it.  An optional element is a record with a    *)
(* "present" flag.                                                         *)
(***************************************************************************)
EXTENDS Integers, Sequences, FiniteSets, TLC

VARIABLES
    pc,          \* position of the run / of the function under evaluation
    arg,         \* argument of the pure function under evaluation
    ret,         \* its return value
    source,      \* the input file: [exists, wellFormed, items]
    dirExists,   \* whether the output directory exists
    madeDirs,    \* whether os.makedirs has been called
    tree,        \* the parsed Source Document (sequence of placemark items)
    placemarks,  \* the list `placemarks`: positions of `tree`, in document order
    idx,         \* loop position in `placemarks` (1-based, next to process)
    total,       \* the counter `total`
    disk,        \* files of the output directory: set of [path, content]
    writes,      \* history: every completed write, in order
    err,         \* the exception that ended the run, or "none"
    result       \* value returned by segment_kml ([present, n])

vars ==
    <<pc, arg, ret, source, dirExists, madeDirs, tree, placemarks, idx, total, disk, writes,
      err, result>>

(***************************************************************************)
(* Characters and text                                                     *)
(***************************************************************************)
Chars == {"a", "7", " ", "&", "_", ".", "-"}

\* \w under re.UNICODE: alphanumerics and the underscore
IsAlnum(c) == c \in {"a", "7", "s", "e", "t", "o", "r", "b", "c", "k", "m", "l"}

IsWord(c) == IsAlnum(c) \/ c = "_"

\* \s, and what str.strip() removes
IsSpace(c) == c = " "

Min(a, b) == IF a < b THEN a ELSE b

\* str.strip()
Strip(s) ==
    LET keep == {k \in 1..Len(s) : ~IsSpace(s[k])}
    IN  IF keep = {} THEN <<>>
        ELSE LET lo == CHOOSE k \in keep : \A j \in keep : k <= j
                 hi == CHOOSE k \in keep : \A j \in keep : j <= k
             IN  SubSeq(s, lo, hi)

\* re.sub(r"[^\w\s\-\.]", "_", name)
SubSpecial(s) ==
    [k \in 1..Len(s) |->
        IF IsWord(s[k]) \/ IsSpace(s[k]) \/ s[k] = "-" \/ s[k] = "." THEN s[k] ELSE "_"]

\* what position k of s contributes to re.sub(r"\s+", "_", s): a blank that
\* starts a run gives "_", a blank inside a run gives nothing
SubSpacesAt(s, k) ==
    IF IsSpace(s[k])
    THEN IF k > 1 /\ IsSpace(s[k - 1]) THEN <<>> ELSE <<"_">>
    ELSE <<s[k]>>

RECURSIVE SubSpacesRange(_, _, _)
SubSpacesRange(s, lo, hi) ==
    IF lo > hi THEN <<>>
    ELSE IF lo = hi THEN SubSpacesAt(s, lo)
    ELSE LET mid == (lo + hi) \div 2
         IN  SubSpacesRange(s, lo, mid) \o SubSpacesRange(s, mid + 1, hi)

\* re.sub(r"\s+", "_", name): every maximal run of whitespace becomes one "_"
SubSpaces(s) == SubSpacesRange(s, 1, Len(s))

MaxFileNameLen == 180

Setor == <<"s", "e", "t", "o", "r">>

\* name[:180]
Truncate(s) == SubSeq(s, 1, Min(Len(s), MaxFileNameLen))

\* faulty variant: the "or 'setor'" fallback is forgotten
SanitizeNoFallback(name) ==
    Truncate(SubSpaces(SubSpecial(Strip(IF name.present THEN name.text ELSE <<>>))))

\* faulty variant: special characters are deleted instead of replaced by "_"
SanitizeSpecialToEmpty(name) ==
    LET s == Strip(IF name.present THEN name.text ELSE <<>>)
        t == Truncate(SubSpaces(SelectSeq(s, LAMBDA c :
                 IsWord(c) \/ IsSpace(c) \/ c = "-" \/ c = ".")))
    IN  IF t = <<>> THEN Setor ELSE t

\* sanitize_filename; `name` is [present, text], present = FALSE for None
sanitize_filename(name) ==
    LET t == Truncate(SubSpaces(SubSpecial(Strip(IF name.present THEN name.text ELSE <<>>))))
    IN  IF t = <<>> THEN Setor ELSE t

Some(s) == [present |-> TRUE, text |-> s]

None == [present |-> FALSE, text |-> <<>>]

(***************************************************************************)
(* Inputs of the sanitizer: every short text, and long texts that straddle *)
(* the 180-character limit.                                                *)
(***************************************************************************)
MaxLen == 3

MaxTail == 2

TextsUpTo(n) == UNION {[1..k -> Chars] : k \in 0..n}

Pad(c, n) == [k \in 1..n |-> c]

LongTexts == {Pad(c, MaxFileNameLen - 1) \o t : c \in Chars, t \in TextsUpTo(MaxTail)}

SanitizeInputs == {None} \cup {Some(s) : s \in TextsUpTo(MaxLen) \cup LongTexts}

Idle ==
    /\ source = [exists |-> FALSE, wellFormed |-> FALSE, items |-> <<>>]
    /\ dirExists = FALSE
    /\ madeDirs = FALSE
    /\ tree = <<>>
    /\ placemarks = <<>>
    /\ idx = 0
    /\ total = 0
    /\ disk = {}
    /\ writes = <<>>
    /\ err = "none"
    /\ result = [present |-> FALSE, n |-> 0]

RunVars ==
    <<source, dirExists, madeDirs, tree, placemarks, idx, total, disk, writes, err, result>>

InitSanitize ==
    /\ pc = "call"
    /\ arg \in SanitizeInputs
    /\ ret = <<>>
    /\ Idle

CallSanitize ==
    /\ pc = "call"
    /\ ret' = sanitize_filename(arg)
    /\ pc' = "returned"
    /\ UNCHANGED <<arg, RunVars>>

NextSanitize == CallSanitize

SpecSanitize == InitSanitize /\ [][NextSanitize]_vars

AllowedChar(c) == IsAlnum(c) \/ c = "_" \/ c = "-" \/ c = "."

ArgText == IF arg.present THEN arg.text ELSE <<>>

\* C3: sanitize_filename returns, for every input (None included), a
\* non-empty text of at most 180 characters, each an alphanumeric, an
\* underscore, a hyphen or a period.
C3_SanitizeSafe ==
    pc = "returned" =>
        /\ ret # <<>>
        /\ Len(ret) <= MaxFileNameLen
        /\ \A k \in 1..Len(ret) : AllowedChar(ret[k])

\* a long input with blanks and special characters inside was cut at 180
C3_Witness ==
    /\ pc = "returned"
    /\ Len(ArgText) > MaxFileNameLen
    /\ Len(ret) = MaxFileNameLen
    /\ \E k \in 1..Len(ArgText) : ArgText[k] = "&"

IsSpecial(c) == ~(IsWord(c) \/ IsSpace(c) \/ c = "-" \/ c = ".")

OnlySpecial(s) == s # <<>> /\ \A k \in 1..Len(s) : IsSpecial(s[k])

\* C4 as stated: "setor" for every empty, whitespace-only or all-special input
C4_SetorForSpecial ==
    pc = "returned" =>
        ((ArgText = <<>> \/ Strip(ArgText) = <<>> \/ OnlySpecial(ArgText)) => ret = Setor)

\* C4 as amended: "setor" for an empty (or None) or whitespace-only input;
\* an input made only of special characters yields as many underscores as it
\* has characters, at most 180, and never "setor".
C4_SetorForBlank ==
    pc = "returned" =>
        /\ (Strip(ArgText) = <<>> => ret = Setor)
        /\ (OnlySpecial(ArgText) =>
                /\ ret = Pad("_", Min(Len(ArgText), MaxFileNameLen))
                /\ ret # Setor)

C4_Witness ==
    /\ pc = "returned"
    /\ OnlySpecial(ArgText)
    /\ Len(ArgText) = 2
    /\ ret = <<"_", "_">>

(***************************************************************************)
(* A Placemark.  `nodes` is the subtree below the Placemark other than its *)
(* name, ExtendedData and styleUrl children, in document (pre-)order, each *)
(* node with its depth below the Placemark (1 = child of the Placemark).   *)
(***************************************************************************)
Placemark(name, ext, styleUrl, nodes) ==
    [name |-> name, ext |-> ext, styleUrl |-> styleUrl, nodes |-> nodes]

NoExt == [present |-> FALSE, data |-> <<>>, schema |-> <<>>]

Tags == {"Polygon", "LineString", "Point", "MultiGeometry", "Model"}

\* the parent of node k: the nearest earlier node one level up (0: the Placemark)
ParentOf(nodes, k) ==
    IF nodes[k].depth = 1 THEN 0
    ELSE CHOOSE j \in 1..(k - 1) :
            /\ nodes[j].depth = nodes[k].depth - 1
            /\ \A m \in (j + 1)..(k - 1) : nodes[m].depth >= nodes[k].depth

\* pm.find(".//kml:<tag>", NS) is not None
FindDescendant(pm, tag) == \E k \in 1..Len(pm.nodes) : pm.nodes[k].tag = tag

\* pm.find(".//kml:<outer>/kml:<tag>", NS) is not None
FindChildOf(pm, outer, tag) ==
    \E k \in 1..Len(pm.nodes) :
        /\ pm.nodes[k].tag = tag
        /\ ParentOf(pm.nodes, k) # 0
        /\ pm.nodes[ParentOf(pm.nodes, k)].tag = outer

\* a lookup among the children only: pm.find("kml:<tag>", NS) is not None
FindChild(pm, tag) ==
    \E k \in 1..Len(pm.nodes) : pm.nodes[k].tag = tag /\ pm.nodes[k].depth = 1

\* faulty variant: the shapes are looked up among the Placemark's children and the
\* children of a MultiGeometry child only
HasGeometryShallow(pm) ==
    \/ FindChild(pm, "Polygon")
    \/ FindChild(pm, "LineString")
    \/ FindChild(pm, "Point")
    \/ \E k \in 1..Len(pm.nodes) :
          /\ pm.nodes[k].tag \in {"Polygon", "LineString", "Point"}
          /\ pm.nodes[k].depth = 2
          /\ pm.nodes[ParentOf(pm.nodes, k)].tag = "MultiGeometry"

has_geometry(pm) ==
    \/ FindDescendant(pm, "Polygon")
    \/ FindChildOf(pm, "MultiGeometry", "Polygon")
    \/ FindChildOf(pm, "MultiGeometry", "LineString")
    \/ FindChildOf(pm, "MultiGeometry", "Point")
    \/ FindDescendant(pm, "LineString")
    \/ FindDescendant(pm, "Point")

MaxNodes == 3

\* the node sequences that are the pre-order of a forest
WellNested(nodes) ==
    /\ Len(nodes) > 0 => nodes[1].depth = 1
    /\ \A k \in 2..Len(nodes) : nodes[k].depth <= nodes[k - 1].depth + 1

NodeLists ==
    {ns \in UNION {[1..k -> [tag : Tags, depth : 1..MaxNodes]] : k \in 0..MaxNodes} :
        WellNested(ns)}

InitGeometry ==
    /\ pc = "call"
    /\ \E ns \in NodeLists : arg = Placemark(None, NoExt, None, ns)
    /\ ret = FALSE
    /\ Idle

CallGeometry ==
    /\ pc = "call"
    /\ ret' = has_geometry(arg)
    /\ pc' = "returned"
    /\ UNCHANGED <<arg, RunVars>>

NextGeometry == CallGeometry

SpecGeometry == InitGeometry /\ [][NextGeometry]_vars

Shapes == {"Polygon", "LineString", "Point"}

\* a shape that is a child of the Placemark, or a child of a MultiGeometry
\* that is a child of the Placemark
ShapeWithinOneLevel(nodes) ==
    \E k \in 1..Len(nodes) :
        /\ nodes[k].tag \in Shapes
        /\ \/ nodes[k].depth = 1
           \/ /\ nodes[k].depth = 2
              /\ nodes[ParentOf(nodes, k)].tag = "MultiGeometry"

\* C7 as stated: has_geometry is true exactly for a shape directly in the
\* feature or directly in a multi-geometry of the feature, and false when
\* the only shapes sit deeper
C7_OneLevelOnly ==
    pc = "returned" => (ret <=> ShapeWithinOneLevel(arg.nodes))

\* C7 as amended: has_geometry is true exactly when a Polygon, LineString or
\* Point occurs anywhere below the feature, at any depth and under any
\* parent; it is false only when the feature has no such descendant.
C7_AnyDepth ==
    pc = "returned" => (ret <=> \E k \in 1..Len(arg.nodes) : arg.nodes[k].tag \in Shapes)

\* a shape two multi-geometry levels down is recognised
C7_Witness ==
    /\ pc = "returned"
    /\ ret
    /\ Len(arg.nodes) = 3
    /\ arg.nodes[1].tag = "MultiGeometry"
    /\ arg.nodes[2] = [tag |-> "MultiGeometry", depth |-> 2]
    /\ arg.nodes[3] = [tag |-> "Point", depth |-> 3]

(***************************************************************************)
(* Name Resolver                                                           *)
(***************************************************************************)
preferred_keys ==
    <<"CD_GEOCODI", "CD_GEOCOD", "SETOR", "SETOR_CENSITARIO",
      "NOME", "NAME", "NM_SETOR", "CD_SETOR", "GEOCODIGO", "CODIGO">>

Keys == {"SETOR", "name", "id"}

\* str.upper() on the keys of the model
Upper(key) ==
    CASE key = "name" -> "NAME"
      [] key = "id" -> "ID"
      [] OTHER -> key

InPreferredKeys(key) == \E k \in 1..Len(preferred_keys) : preferred_keys[k] = key

\* lines 68-71: a Data entry whose upper-cased name is a preferred key and
\* whose kml:value child has text that is non-empty once stripped
DataMatches(d) ==
    /\ InPreferredKeys(Upper(d.key))
    /\ (IF d.value.present THEN Strip(d.value.text) ELSE <<>>) # <<>>

\* lines 76-78
SimpleMatches(sd) == InPreferredKeys(Upper(sd.key)) /\ Strip(sd.text) # <<>>

\* the loop of lines 67-72: index of the Data entry it returns from, or 0
FirstData(ext) ==
    IF \E k \in 1..Len(ext.data) : DataMatches(ext.data[k])
    THEN CHOOSE k \in 1..Len(ext.data) :
            /\ DataMatches(ext.data[k])
            /\ \A j \in 1..(k - 1) : ~DataMatches(ext.data[j])
    ELSE 0

\* the nested loops of lines 74-79: block and entry they return from
SimpleHits(ext) ==
    {bk \in UNION {{<<b, k>> : k \in 1..Len(ext.schema[b])} : b \in 1..Len(ext.schema)} :
        SimpleMatches(ext.schema[bk[1]][bk[2]])}

Before(x, y) == x[1] < y[1] \/ (x[1] = y[1] /\ x[2] < y[2])

FirstSimple(ext) == CHOOSE x \in SimpleHits(ext) : \A y \in SimpleHits(ext) \ {x} : Before(x, y)

\* lines 81-84
LabelOrDefault(pm) ==
    IF pm.name.present /\ pm.name.text # <<>> THEN Strip(pm.name.text) ELSE Setor

\* faulty variant: the keys are tried in the order of preferred_keys, each over all
\* Data entries, instead of the entries being tried in document order
PreferredNameByKeyOrder(pm) ==
    LET hit(k) == {j \in 1..Len(pm.ext.data) :
                      DataMatches(pm.ext.data[j]) /\ Upper(pm.ext.data[j].key) = preferred_keys[k]}
        ks == {k \in 1..Len(preferred_keys) : hit(k) # {}}
    IN  IF pm.ext.present /\ ks # {}
        THEN LET k == CHOOSE x \in ks : \A y \in ks : x <= y
                 j == CHOOSE x \in hit(k) : \A y \in hit(k) : x <= y
             IN  Strip(pm.ext.data[j].value.text)
        ELSE IF pm.ext.present /\ SimpleHits(pm.ext) # {}
        THEN Strip(pm.ext.schema[FirstSimple(pm.ext)[1]][FirstSimple(pm.ext)[2]].text)
        ELSE LabelOrDefault(pm)

preferred_name(pm) ==
    IF pm.ext.present /\ FirstData(pm.ext) # 0
    THEN Strip(pm.ext.data[FirstData(pm.ext)].value.text)
    ELSE IF pm.ext.present /\ SimpleHits(pm.ext) # {}
    THEN Strip(pm.ext.schema[FirstSimple(pm.ext)[1]][FirstSimple(pm.ext)[2]].text)
    ELSE LabelOrDefault(pm)

(***************************************************************************)
(* Inputs of the resolver: every feature with at most MaxEntries metadata  *)
(* entries in all, spread over the inline entries and up to two            *)
(* SchemaData blocks.                                                      *)
(***************************************************************************)
MaxEntries == 2

ValueTexts == {<<" ">>, <<" ", "a">>, <<"b">>}

DataEntries ==
    {[key |-> k, value |-> v] : k \in Keys, v \in {None} \cup {Some(t) : t \in ValueTexts}}

SimpleEntries == [key : Keys, text : {<<>>} \cup ValueTexts]

LabelOptions == {None, Some(<<>>), Some(<<" ">>), Some(<<" ", "c", " ">>)}

SeqsUpTo(S, n) == UNION {[1..k -> S] : k \in 0..n}

SchemasUpTo(n) ==
    {<<>>} \cup {<<b>> : b \in SeqsUpTo(SimpleEntries, n)}
           \cup UNION {{<<b1, b2>> : b2 \in SeqsUpTo(SimpleEntries, n - Len(b1))} :
                          b1 \in SeqsUpTo(SimpleEntries, n)}

ExtOptions ==
    {NoExt} \cup
    UNION {{[present |-> TRUE, data |-> d, schema |-> sc] : sc \in SchemasUpTo(MaxEntries - Len(d))} :
              d \in SeqsUpTo(DataEntries, MaxEntries)}

InitName ==
    /\ pc = "call"
    /\ \E nm \in LabelOptions, ext \in ExtOptions : arg = Placemark(nm, ext, None, <<>>)
    /\ ret = <<>>
    /\ Idle

CallName ==
    /\ pc = "call"
    /\ ret' = preferred_name(arg)
    /\ pc' = "returned"
    /\ UNCHANGED <<arg, RunVars>>

NextName == CallName

SpecName == InitName /\ [][NextName]_vars

AnyDataMatch(pm) == pm.ext.present /\ \E k \in 1..Len(pm.ext.data) : DataMatches(pm.ext.data[k])

AnySimpleMatch(pm) ==
    /\ pm.ext.present
    /\ \E b \in 1..Len(pm.ext.schema) : \E k \in 1..Len(pm.ext.schema[b]) :
          SimpleMatches(pm.ext.schema[b][k])

\* C5 as stated: preferred_name never returns an empty name; without a
\* structured match it returns the label when that is present and non-empty
\* after trimming, and "setor" otherwise
C5_NameNonEmpty ==
    pc = "returned" =>
        /\ ret # <<>>
        /\ (~AnyDataMatch(arg) /\ ~AnySimpleMatch(arg)) =>
              ret = (IF arg.name.present /\ Strip(arg.name.text) # <<>>
                     THEN Strip(arg.name.text) ELSE Setor)

\* C6: the first Data entry in document order with a preferred key and a
\* non-blank value gives the name, whichever preferred key it carries; only
\* without one does the first matching SimpleData entry (blocks in order,
\* entries in order) give it; the label is used only without either.
C6_Precedence ==
    pc = "returned" =>
        /\ \A k \in 1..Len(arg.ext.data) :
              (/\ arg.ext.present
               /\ DataMatches(arg.ext.data[k])
               /\ \A j \in 1..(k - 1) : ~DataMatches(arg.ext.data[j]))
              => ret = Strip(arg.ext.data[k].value.text)
        /\ ~AnyDataMatch(arg) =>
              \A b \in 1..Len(arg.ext.schema) : \A k \in 1..Len(arg.ext.schema[b]) :
                 (/\ arg.ext.present
                  /\ SimpleMatches(arg.ext.schema[b][k])
                  /\ \A j \in 1..(k - 1) : ~SimpleMatches(arg.ext.schema[b][j])
                  /\ \A c \in 1..(b - 1) : \A j \in 1..Len(arg.ext.schema[c]) :
                        ~SimpleMatches(arg.ext.schema[c][j]))
                 => ret = Strip(arg.ext.schema[b][k].text)
        /\ (AnyDataMatch(arg) \/ AnySimpleMatch(arg)) =>
              \E v \in ValueTexts : ret = Strip(v)

\* two matching Data entries, the first under the key that comes later in
\* preferred_keys, and a label: the first entry's value is the name
C6_Witness ==
    /\ pc = "returned"
    /\ arg.ext.present
    /\ Len(arg.ext.data) = 2
    /\ arg.ext.data[1] = [key |-> "name", value |-> Some(<<" ", "a">>)]
    /\ arg.ext.data[2] = [key |-> "SETOR", value |-> Some(<<"b">>)]
    /\ arg.name = Some(<<" ", "c", " ">>)
    /\ ret = <<"a">>

(***************************************************************************)
(* Serialisation: ET.tostring escapes "&" in text, ET.fromstring undoes it *)
(* and rejects a bare "&".                                                 *)
(***************************************************************************)
Amp == <<"&", "a", "m", "p", ";">>

RECURSIVE Escape(_)
Escape(s) ==
    IF s = <<>> THEN <<>>
    ELSE (IF Head(s) = "&" THEN Amp ELSE <<Head(s)>>) \o Escape(Tail(s))

WellEscaped(s) ==
    \A k \in 1..Len(s) : s[k] = "&" => (k + 4 <= Len(s) /\ SubSeq(s, k, k + 4) = Amp)

RECURSIVE Unescape(_)
Unescape(s) ==
    IF s = <<>> THEN <<>>
    ELSE IF Head(s) = "&" /\ Len(s) >= 5 /\ SubSeq(s, 1, 5) = Amp
         THEN <<"&">> \o Unescape(SubSeq(s, 6, Len(s)))
         ELSE <<Head(s)>> \o Unescape(Tail(s))

AllTexts(pm) ==
    {pm.name.text, pm.styleUrl.text}
        \cup {pm.ext.data[k].value.text : k \in 1..Len(pm.ext.data)}
        \cup UNION {{pm.ext.schema[b][k].text : k \in 1..Len(pm.ext.schema[b])} :
                       b \in 1..Len(pm.ext.schema)}

\* faulty variant: text is written out without escaping
tostring_raw(pm) == pm

\* ET.tostring(pm): the same elements with every text escaped
tostring(pm) ==
    [name |-> [present |-> pm.name.present, text |-> Escape(pm.name.text)],
     ext |-> [present |-> pm.ext.present,
              data |-> [k \in 1..Len(pm.ext.data) |->
                          [key |-> pm.ext.data[k].key,
                           value |-> [present |-> pm.ext.data[k].value.present,
                                      text |-> Escape(pm.ext.data[k].value.text)]]],
              schema |-> [b \in 1..Len(pm.ext.schema) |->
                            [k \in 1..Len(pm.ext.schema[b]) |->
                               [key |-> pm.ext.schema[b][k].key,
                                text |-> Escape(pm.ext.schema[b][k].text)]]]],
     styleUrl |-> [present |-> pm.styleUrl.present, text |-> Escape(pm.styleUrl.text)],
     nodes |-> pm.nodes]

\* the elements of a serialised Placemark with every text unescaped
UnescapeTexts(pm) ==
    [name |-> [present |-> pm.name.present, text |-> Unescape(pm.name.text)],
     ext |-> [present |-> pm.ext.present,
              data |-> [k \in 1..Len(pm.ext.data) |->
                          [key |-> pm.ext.data[k].key,
                           value |-> [present |-> pm.ext.data[k].value.present,
                                      text |-> Unescape(pm.ext.data[k].value.text)]]],
              schema |-> [b \in 1..Len(pm.ext.schema) |->
                            [k \in 1..Len(pm.ext.schema[b]) |->
                               [key |-> pm.ext.schema[b][k].key,
                                text |-> Unescape(pm.ext.schema[b][k].text)]]]],
     styleUrl |-> [present |-> pm.styleUrl.present, text |-> Unescape(pm.styleUrl.text)],
     nodes |-> pm.nodes]

\* ET.fromstring(markup): [ok, pm]
fromstring(markup) ==
    [ok |-> \A t \in AllTexts(markup) : WellEscaped(t),
     pm |-> UnescapeTexts(markup)]

\* lines 113-116: the first kml:name child gets the text, or one is added
WithName(pm, name) == [pm EXCEPT !.name = [present |-> TRUE, text |-> name]]

\* faulty variant: the Placemark of the tree itself is relabelled, no copy is made
LabelInPlace(t, k, name) ==
    [tree |-> [t EXCEPT ![k].pm = WithName(@, name)], frag |-> WithName(t[k].pm, name)]

\* lines 110-116: pm_copy is parsed back from the serialised Placemark and
\* relabelled; the tree keeps its Placemark
CloneAndLabel(t, k, name) ==
    [tree |-> t, frag |-> WithName(fromstring(tostring(t[k].pm)).pm, name)]

KmlHeader == "<?xml version=1.0 encoding=UTF-8?><kml xmlns xmlns:gx xmlns:kml xmlns:atom>"

kml_header == KmlHeader

\* wrap_document: header, <Document>, the fragment, </Document></kml>
wrap_document(inner) == [header |-> kml_header, body |-> <<inner>>, closed |-> TRUE]

\* what a file holds when the write fails after open(out_path, "w") has
\* truncated or created it: nothing, or a document cut before its fragment
PartialContents ==
    {[header |-> "", body |-> <<>>, closed |-> FALSE],
     [header |-> kml_header, body |-> <<>>, closed |-> FALSE]}

KmlSuffix == <<".", "k", "m", "l">>

\* lines 105-107
OutPath(pm) == sanitize_filename(Some(preferred_name(pm))) \o KmlSuffix

\* faulty variant: a path that already holds a file is left as it is
WriteKeepExisting(d, path, content) ==
    IF \E f \in d : f.path = path THEN d
    ELSE d \cup {[path |-> path, content |-> content]}

\* open(out_path, "w") and write: the file at the path is replaced
WriteFile(d, path, content) ==
    {f \in d : f.path # path} \cup {[path |-> path, content |-> content]}

\* faulty variant: only the Placemarks that are children of the Document are found
FindTopLevelPlacemarks(t) ==
    SelectSeq([k \in 1..Len(t) |-> k], LAMBDA k : t[k].tag = "Placemark" /\ t[k].depth = 0)

\* root.findall(".//kml:Placemark", NS): every Placemark, in document order
FindAllPlacemarks(t) ==
    SelectSeq([k \in 1..Len(t) |-> k], LAMBDA k : t[k].tag = "Placemark")

(***************************************************************************)
(* segment_kml.  The Source Document is the pre-order list of the Folders  *)
(* and Placemarks below its Document element, each with its folder depth.  *)
(***************************************************************************)
MaxItems == 3

Node(tag, depth) == [tag |-> tag, depth |-> depth]

Ext(data, schema) == [present |-> TRUE, data |-> data, schema |-> schema]

SampleStyle == Some(<<"&", "s">>)

\* the features the documents are built from: labels and metadata that
\* resolve to colliding file names, a missing and a blank label, a feature
\* without geometry, one with an unsupported shape and one whose only shape
\* is two containers down
SamplePlacemarks ==
    {Placemark(Some(<<"a", "&">>), NoExt, SampleStyle, <<Node("Point", 1)>>),
     Placemark(Some(<<" ", "a", "_", " ">>), NoExt, None,
               <<Node("MultiGeometry", 1), Node("LineString", 2)>>),
     Placemark(Some(<<" ", "c", " ">>),
               Ext(<<[key |-> "id", value |-> Some(<<"b">>)],
                     [key |-> "SETOR", value |-> Some(<<" ", "a", "&">>)]>>, <<>>),
               SampleStyle, <<Node("Polygon", 1)>>),
     Placemark(None, NoExt, None, <<Node("Point", 1)>>),
     Placemark(Some(<<" ">>), NoExt, None, <<Node("Point", 1)>>),
     Placemark(Some(<<"b">>), NoExt, SampleStyle, <<>>),
     Placemark(Some(<<"b">>), NoExt, None, <<Node("Model", 1)>>),
     Placemark(Some(<<"b">>), Ext(<<>>, <<<<[key |-> "name", text |-> <<"b", ".">>]>>>>), None,
               <<Node("MultiGeometry", 1), Node("MultiGeometry", 2), Node("Point", 3)>>)}

FolderPick == [tag |-> "Folder", pm |-> Placemark(None, NoExt, None, <<>>)]

Picks == {FolderPick} \cup {[tag |-> "Placemark", pm |-> f] : f \in SamplePlacemarks}

\* the document the picks spell out: a Folder holds every item after it
DocOf(picks) ==
    [k \in 1..Len(picks) |->
        [tag |-> picks[k].tag,
         depth |-> Cardinality({j \in 1..(k - 1) : picks[j].tag = "Folder"}),
         pm |-> picks[k].pm]]

Sources ==
    {[exists |-> FALSE, wellFormed |-> FALSE, items |-> <<>>],
     [exists |-> TRUE, wellFormed |-> FALSE, items |-> <<>>]}
    \cup {[exists |-> TRUE, wellFormed |-> TRUE, items |-> DocOf(p)] : p \in SeqsUpTo(Picks, MaxItems)}

NoResult == [present |-> FALSE, n |-> 0]

Init ==
    /\ pc = "start"
    /\ arg = <<>>
    /\ ret = <<>>
    /\ source \in Sources
    /\ dirExists \in BOOLEAN
    /\ madeDirs = FALSE
    /\ tree = <<>>
    /\ placemarks = <<>>
    /\ idx = 0
    /\ total = 0
    /\ disk = {}
    /\ writes = <<>>
    /\ err = "none"
    /\ result = NoResult

Abort(e) ==
    /\ pc' = "aborted"
    /\ err' = e

\* faulty variant: the output directory is created before the input path is checked
CheckInputAfterMakeDirs ==
    /\ pc = "start"
    /\ madeDirs' = TRUE
    /\ dirExists' = TRUE
    /\ IF source.exists
       THEN pc' = "parse" /\ err' = err
       ELSE Abort("FileNotFoundError")
    /\ UNCHANGED <<arg, ret, source, tree, placemarks, idx, total, disk, writes, result>>

\* lines 87-88
CheckInput ==
    /\ pc = "start"
    /\ IF source.exists
       THEN pc' = "makedirs" /\ err' = err
       ELSE Abort("FileNotFoundError")
    /\ UNCHANGED <<arg, ret, source, dirExists, madeDirs, tree, placemarks, idx, total, disk,
                   writes, result>>

\* line 90
MakeDirs ==
    /\ pc = "makedirs"
    /\ madeDirs' = TRUE
    /\ dirExists' = TRUE
    /\ pc' = "parse"
    /\ UNCHANGED <<arg, ret, source, tree, placemarks, idx, total, disk, writes, err, result>>

\* line 90 raising OSError: the directory cannot be created
MakeDirsFails ==
    /\ pc = "makedirs"
    /\ ~dirExists
    /\ madeDirs' = TRUE
    /\ Abort("OSError")
    /\ UNCHANGED <<arg, ret, source, dirExists, tree, placemarks, idx, total, disk, writes,
                   result>>

\* lines 95-99
ParseInput ==
    /\ pc = "parse"
    /\ IF source.wellFormed
       THEN /\ tree' = source.items
            /\ placemarks' = FindAllPlacemarks(source.items)
            /\ idx' = 1
            /\ total' = 0
            /\ pc' = "loop"
            /\ err' = err
       ELSE /\ Abort("ParseError")
            /\ UNCHANGED <<tree, placemarks, idx, total>>
    /\ UNCHANGED <<arg, ret, source, dirExists, madeDirs, disk, writes, result>>

Current == tree[placemarks[idx]].pm

InLoop == pc = "loop" /\ idx <= Len(placemarks)

\* lines 102-103
SkipFeature ==
    /\ InLoop
    /\ ~has_geometry(Current)
    /\ idx' = idx + 1
    /\ UNCHANGED <<pc, arg, ret, source, dirExists, madeDirs, tree, placemarks, total, disk,
                   writes, err, result>>

\* lines 105-120: the text to be written for the current Placemark
Labelled == CloneAndLabel(tree, placemarks[idx], preferred_name(Current))

KmlFinal == wrap_document(tostring(Labelled.frag))

\* lines 105-125
WriteFeature ==
    /\ InLoop
    /\ has_geometry(Current)
    /\ tree' = Labelled.tree
    /\ disk' = WriteFile(disk, OutPath(Current), KmlFinal)
    /\ writes' = Append(writes, [src |-> placemarks[idx], path |-> OutPath(Current),
                                 content |-> KmlFinal])
    /\ total' = total + 1
    /\ idx' = idx + 1
    /\ UNCHANGED <<pc, arg, ret, source, dirExists, madeDirs, placemarks, err, result>>

\* line 122 raising OSError: the file cannot be opened
WriteFailsOnOpen ==
    /\ InLoop
    /\ has_geometry(Current)
    /\ tree' = Labelled.tree
    /\ Abort("IOError")
    /\ UNCHANGED <<arg, ret, source, dirExists, madeDirs, placemarks, idx, total, disk, writes,
                   result>>

\* line 123 (or the close of line 122's block) raising OSError, disk full:
\* the file was opened, hence created or truncated, and is left incomplete
WriteFailsAfterOpen ==
    /\ InLoop
    /\ has_geometry(Current)
    /\ tree' = Labelled.tree
    /\ \E c \in PartialContents : disk' = WriteFile(disk, OutPath(Current), c)
    /\ Abort("IOError")
    /\ UNCHANGED <<arg, ret, source, dirExists, madeDirs, placemarks, idx, total, writes,
                   result>>

\* line 127
Return ==
    /\ pc = "loop"
    /\ idx > Len(placemarks)
    /\ result' = [present |-> TRUE, n |-> total]
    /\ pc' = "done"
    /\ UNCHANGED <<arg, ret, source, dirExists, madeDirs, tree, placemarks, idx, total, disk,
                   writes, err>>

Next ==
    \/ CheckInput
    \/ MakeDirs
    \/ MakeDirsFails
    \/ ParseInput
    \/ SkipFeature
    \/ WriteFeature
    \/ WriteFailsOnOpen
    \/ WriteFailsAfterOpen
    \/ Return

Spec == Init /\ [][Next]_vars

(***************************************************************************)
(* Properties of a run                                                     *)
(***************************************************************************)
\* the positions of the Source Document that hold a Placemark with geometry
Qualifying(t) == {k \in 1..Len(t) : t[k].tag = "Placemark" /\ has_geometry(t[k].pm)}

WrittenFrom == {writes[j].src : j \in 1..Len(writes)}

FilesAt(d, path) == {f \in d : f.path = path}

\* reading an output file back: the document must be complete and every
\* fragment in it must parse
ParseDocument(content) ==
    [ok |-> /\ content.header = kml_header
            /\ content.closed
            /\ \A k \in 1..Len(content.body) : fromstring(content.body[k]).ok,
     features |-> [k \in 1..Len(content.body) |-> fromstring(content.body[k]).pm]]

LabelText(pm) == IF pm.name.present THEN pm.name.text ELSE <<>>

\* C1: a run that returns has written one document per Placemark with
\* geometry, at whatever folder depth, none for any other Placemark, and
\* returns the number of those Placemarks.
C1_CountQualifying ==
    pc = "done" =>
        /\ result.present
        /\ result.n = Cardinality(Qualifying(source.items))
        /\ Len(writes) = result.n
        /\ WrittenFrom = Qualifying(source.items)
        /\ \A j \in 1..(Len(writes) - 1) : writes[j].src < writes[j + 1].src
        /\ \A f \in disk : \E k \in Qualifying(source.items) : f.path = OutPath(source.items[k].pm)

\* a Placemark inside a Folder was written and one without geometry skipped
C1_Witness ==
    /\ pc = "done"
    /\ result.n = 1
    /\ \E k \in Qualifying(source.items) : source.items[k].depth > 0
    /\ \E k \in 1..Len(source.items) :
          source.items[k].tag = "Placemark" /\ k \notin Qualifying(source.items)

SamePath(t, k) == {j \in Qualifying(t) : OutPath(t[j].pm) = OutPath(t[k].pm)}

LastOf(S) == CHOOSE x \in S : \A y \in S : y <= x

\* C2: when several qualifying features resolve to one file name, the run
\* leaves exactly one file at that path, holding the last of them in
\* document order, and the count returned counts each of them.
C2_LastWriterWins ==
    pc = "done" =>
        \A k \in Qualifying(source.items) :
            Cardinality(SamePath(source.items, k)) >= 2 =>
                LET last == source.items[LastOf(SamePath(source.items, k))].pm
                IN  /\ Cardinality(FilesAt(disk, OutPath(last))) = 1
                    /\ \A f \in FilesAt(disk, OutPath(last)) :
                          /\ ParseDocument(f.content).ok
                          /\ ParseDocument(f.content).features
                                = <<WithName(last, preferred_name(last))>>
                    /\ result.n = Cardinality(Qualifying(source.items))
                    /\ result.n > Cardinality(disk)

\* two different features with one file name, the second one survives
C2_Witness ==
    /\ pc = "done"
    /\ Len(writes) = 2
    /\ writes[1].path = writes[2].path
    /\ writes[1].content # writes[2].content
    /\ Cardinality(disk) = 1
    /\ result.n = 2

RECURSIVE DiskAfter(_, _)
DiskAfter(t, n) ==
    IF n = 0 THEN {}
    ELSE IF n \in Qualifying(t)
         THEN WriteFile(DiskAfter(t, n - 1), OutPath(t[n].pm),
                        wrap_document(tostring(CloneAndLabel(t, n, preferred_name(t[n].pm)).frag)))
         ELSE DiskAfter(t, n - 1)

AbortedEarly ==
    /\ err = "FileNotFoundError" => disk = {} /\ ~madeDirs
    /\ err = "ParseError" => disk = {}
    /\ err = "OSError" => disk = {}

NothingAfterFailure ==
    /\ ~result.present
    /\ ~ENABLED Next
    /\ err = "IOError" =>
          /\ WrittenFrom = {k \in Qualifying(source.items) : k < placemarks[idx]}
          /\ total = Len(writes)

\* C9 as stated: every failure ends the run for good and without a count;
\* a missing input leaves no file and no directory created, a parse failure
\* leaves no file, a write failure leaves exactly the files written for the
\* earlier features
C9_ExactlyEarlierFiles ==
    pc = "aborted" =>
        /\ AbortedEarly
        /\ NothingAfterFailure
        /\ err = "IOError" => disk = DiskAfter(source.items, placemarks[idx] - 1)

\* C9 as amended: as stated, except that after a write failure the files of
\* the earlier features are all there only at the other paths: the path of
\* the failing feature holds either what it held before (the file could not
\* be opened) or one incomplete file, which replaces an earlier feature's
\* file of the same name.
C9_FailureAborts ==
    pc = "aborted" =>
        /\ AbortedEarly
        /\ NothingAfterFailure
        /\ err = "IOError" =>
              LET before == DiskAfter(source.items, placemarks[idx] - 1)
                  path == OutPath(Current)
              IN  /\ disk \ FilesAt(disk, path) = before \ FilesAt(before, path)
                  /\ \/ FilesAt(disk, path) = FilesAt(before, path)
                     \/ \E c \in PartialContents :
                           FilesAt(disk, path) = {[path |-> path, content |-> c]}

\* a write failed after an earlier feature had been written to the same
\* path, and the earlier document is gone
C9_Witness ==
    /\ pc = "aborted"
    /\ err = "IOError"
    /\ Len(writes) = 1
    /\ writes[1].path = OutPath(Current)
    /\ \A f \in disk : ~ParseDocument(f.content).ok
    /\ Cardinality(disk) = 1

====
